---- MODULE Spec2Model ----
(***************************************************************************)
(* Model of notebooks/dga_detection/DGA_Detection.ipynb: the helpers       *)
(* create_dir, cleanup_cache and train_and_eval, the training cell and the *)
(* inference cell.                                                         *)
(*                                                                         *)
(* Accuracies are tenths (5 stands for 0.5).  A checkpoint path is the     *)
(* sequence <<second>> of the clock reading it was formatted from; the     *)
(* empty string is <<>>.  The model state saved in a checkpoint is the     *)
(* number of training passes the model has gone through.                   *)
(***************************************************************************)
EXTENDS Integers, Sequences, FiniteSets

VARIABLES
    pc,                   \* position of the notebook's control flow
    accSeq,               \* input: the accuracy evaluate_model gives in each epoch
    dirExists,            \* os.path.exists(model_dir)
    disk,                 \* checkpoint files in model_dir: records [path, content, complete]
    now,                  \* the wall clock, in whole seconds
    i,                    \* train_and_eval: loop index
    weights,              \* dd: number of completed training passes
    accuracy,             \* train_and_eval: accuracy of the current epoch
    output_filepath,      \* train_and_eval: output_filepath
    max_accuracy,         \* train_and_eval: max_accuracy
    prev_model_file_path, \* train_and_eval: prev_model_file_path
    model_filepath,       \* notebook global model_filepath
    error,                \* the exception that ended a cell, "" while none
    saved,                \* history: <<epoch, path>> of every save_model call
    removed,              \* history: <<epoch, path>> of every os.remove call
    cleaned,              \* history: phases after which cleanup_cache ran
    loaded,               \* history: paths load_model was called with
    partitioned_dfs,      \* test_dataset.partitioned_dfs: batches of records [type, pred]
    j,                    \* inference cell: number of partitions processed
    pred_results,         \* inference cell: pred_results
    true_results,         \* inference cell: true_results
    accuracy_score        \* inference cell: accuracy_score, as [correct, total]

vars == <<pc, accSeq, dirExists, disk, now, i, weights, accuracy, output_filepath,
          max_accuracy, prev_model_file_path, model_filepath, error, saved, removed,
          cleaned, loaded, partitioned_dfs, j, pred_results, true_results,
          accuracy_score>>

trainVars == <<i, weights, accuracy, output_filepath, max_accuracy,
               prev_model_file_path, saved, removed>>

inferVars == <<j, pred_results, true_results, accuracy_score, loaded>>

----------------------------------------------------------------------------
(* Bounds and input sets *)

MaxEpoch == 4

AccLevels == {0, 5, 7, 9}

ExampleAccs == <<5, 3, 9, 9, 7>>

RECURSIVE SeqsUpTo(_, _)
SeqsUpTo(S, n) ==
    IF n = 0 THEN {<<>>}
    ELSE LET shorter == SeqsUpTo(S, n - 1)
         IN  shorter \cup {Append(s, x) : s \in {t \in shorter : Len(t) = n - 1}, x \in S}

AccSeqs == SeqsUpTo(AccLevels, MaxEpoch) \cup {ExampleAccs}

----------------------------------------------------------------------------
(* The file system and the clock *)

\* now.strftime("%Y-%m-%d_%H_%M_%S") inside model_dir + "/rnn_classifier_{}.pth":
\* one name per whole second.
strftime(t) == <<t>>

Exists(d, p) == \E f \in d : f.path = p

\* open(p, "wb") followed by the serialised bytes: replaces whatever p held.
WriteFile(d, p, c, whole) ==
    {f \in d : f.path # p} \cup {[path |-> p, content |-> c, complete |-> whole]}

RemoveFile(d, p) == {f \in d : f.path # p}

\* A comparison that also replaces on a tie.
ImprovesOrTies(acc, best) == acc >= best

\* if accuracy > max_accuracy:
Improves(acc, best) == acc > best

Raise(where, what) ==
    /\ pc' = where
    /\ error' = what

----------------------------------------------------------------------------
(* create_dir *)

\* if not os.path.exists(dir_path):
CreateDirCheck ==
    /\ pc = "create_dir"
    /\ pc' = IF dirExists THEN "for" ELSE "makedirs"
    /\ UNCHANGED <<accSeq, dirExists, disk, now, model_filepath, error, cleaned,
                   partitioned_dfs, trainVars, inferVars>>

\* os.makedirs(dir_path), without exist_ok: FileExistsError when the directory is there.
MakeDirs ==
    /\ pc = "makedirs"
    /\ IF dirExists
         THEN Raise("train_aborted", "FileExistsError") /\ UNCHANGED dirExists
         ELSE pc' = "for" /\ dirExists' = TRUE /\ UNCHANGED error
    /\ UNCHANGED <<accSeq, disk, now, model_filepath, cleaned, partitioned_dfs,
                   trainVars, inferVars>>

\* Another process creates model_dir while create_dir runs.
OtherProcessMkdir ==
    /\ pc \in {"create_dir", "makedirs"}
    /\ ~dirExists
    /\ dirExists' = TRUE
    /\ UNCHANGED <<pc, accSeq, disk, now, model_filepath, error, cleaned,
                   partitioned_dfs, trainVars, inferVars>>

----------------------------------------------------------------------------
(* train_and_eval *)

\* for i in range(1, epoch + 1):
ForNext ==
    /\ pc = "for"
    /\ IF i < Len(accSeq)
         THEN i' = i + 1 /\ pc' = "train_model"
         ELSE i' = i /\ pc' = "return"
    /\ UNCHANGED <<accSeq, dirExists, disk, now, weights, accuracy, output_filepath,
                   max_accuracy, prev_model_file_path, model_filepath, error, saved,
                   removed, cleaned, partitioned_dfs, inferVars>>

\* dd.train_model(train_dataset)
TrainModel ==
    /\ pc = "train_model"
    /\ \/ pc' = "evaluate_model" /\ weights' = weights + 1 /\ UNCHANGED error
       \/ Raise("train_aborted", "train_model") /\ UNCHANGED weights
    /\ UNCHANGED <<accSeq, dirExists, disk, now, i, accuracy, output_filepath,
                   max_accuracy, prev_model_file_path, model_filepath, saved, removed,
                   cleaned, partitioned_dfs, inferVars>>

\* accuracy = dd.evaluate_model(test_dataset)
EvaluateModel ==
    /\ pc = "evaluate_model"
    /\ \/ pc' = "timestamp" /\ accuracy' = accSeq[i] /\ UNCHANGED error
       \/ Raise("train_aborted", "evaluate_model") /\ UNCHANGED accuracy
    /\ UNCHANGED <<accSeq, dirExists, disk, now, i, weights, output_filepath,
                   max_accuracy, prev_model_file_path, model_filepath, saved, removed,
                   cleaned, partitioned_dfs, inferVars>>

\* now = datetime.now(); output_filepath = ...; if accuracy > max_accuracy:
\* The clock has moved on by some whole number of seconds since the last reading;
\* what matters to the file name is whether the second is the same or a later one.
Timestamp ==
    /\ pc = "timestamp"
    /\ \E t \in {now, now + 1} :
         /\ now' = t
         /\ output_filepath' = strftime(t)
    /\ pc' = IF Improves(accuracy, max_accuracy) THEN "save_model" ELSE "for"
    /\ UNCHANGED <<accSeq, dirExists, disk, i, weights, accuracy, max_accuracy,
                   prev_model_file_path, model_filepath, error, saved, removed,
                   cleaned, partitioned_dfs, inferVars>>

\* dd.save_model(output_filepath); max_accuracy = accuracy
\* A failing save has either written nothing or left a truncated file behind.
SaveModel ==
    /\ pc = "save_model"
    /\ saved' = saved \cup {<<i, output_filepath>>}
    /\ \/ /\ disk' = WriteFile(disk, output_filepath, weights, TRUE)
          /\ max_accuracy' = accuracy
          /\ pc' = "os_remove"
          /\ UNCHANGED error
       \/ /\ disk' \in {disk, WriteFile(disk, output_filepath, weights, FALSE)}
          /\ Raise("train_aborted", "save_model")
          /\ UNCHANGED max_accuracy
    /\ UNCHANGED <<accSeq, dirExists, now, i, weights, accuracy, output_filepath,
                   prev_model_file_path, model_filepath, removed, cleaned,
                   partitioned_dfs, inferVars>>

\* A rotation that forgets to delete the previous checkpoint.
RemovePrevKeepsFile ==
    /\ pc = "os_remove"
    /\ prev_model_file_path' = output_filepath
    /\ pc' = "for"
    /\ UNCHANGED <<accSeq, dirExists, disk, now, i, weights, accuracy, output_filepath,
                   max_accuracy, model_filepath, error, saved, removed, cleaned,
                   partitioned_dfs, inferVars>>

\* if prev_model_file_path: os.remove(prev_model_file_path)
\* prev_model_file_path = output_filepath
RemovePrev ==
    /\ pc = "os_remove"
    /\ IF prev_model_file_path # <<>>
         THEN /\ removed' = removed \cup {<<i, prev_model_file_path>>}
              /\ IF Exists(disk, prev_model_file_path)
                   THEN /\ disk' = RemoveFile(disk, prev_model_file_path)
                        /\ prev_model_file_path' = output_filepath
                        /\ pc' = "for"
                        /\ UNCHANGED error
                   ELSE /\ Raise("train_aborted", "FileNotFoundError")
                        /\ UNCHANGED <<disk, prev_model_file_path>>
         ELSE /\ prev_model_file_path' = output_filepath
              /\ pc' = "for"
              /\ UNCHANGED <<disk, removed, error>>
    /\ UNCHANGED <<accSeq, dirExists, now, i, weights, accuracy, output_filepath,
                   max_accuracy, model_filepath, saved, cleaned, partitioned_dfs,
                   inferVars>>

\* return prev_model_file_path, assigned to model_filepath by the training cell
Return ==
    /\ pc = "return"
    /\ model_filepath' = prev_model_file_path
    /\ pc' = "cleanup_train"
    /\ UNCHANGED <<accSeq, dirExists, disk, now, error, cleaned, partitioned_dfs,
                   trainVars, inferVars>>

\* cleanup_cache() at the end of the training cell
CleanupTrain ==
    /\ pc = "cleanup_train"
    /\ cleaned' = cleaned \cup {"training"}
    /\ pc' = "load_model"
    /\ UNCHANGED <<accSeq, dirExists, disk, now, model_filepath, error,
                   partitioned_dfs, trainVars, inferVars>>

----------------------------------------------------------------------------
(* Inference cell *)

Labels == {0, 1}

Records == [type : Labels, pred : Labels]

MaxRecords == 3

\* Non-empty batches of exactly n records.
RECURSIVE BatchesOf(_)
BatchesOf(n) ==
    IF n = 0 THEN {<<>>}
    ELSE {<<r>> \o b : r \in Records, b \in BatchesOf(n - 1)}

\* Ordered sequences of non-empty batches holding at most n records in all.
RECURSIVE Datasets(_)
Datasets(n) ==
    {<<>>} \cup UNION {{<<b>> \o d : b \in BatchesOf(k), d \in Datasets(n - k)} : k \in 1..n}

\* list(dd.predict(partition['domain']).values_host)
PredictedLabels(partition) == [k \in 1..Len(partition) |-> partition[k].pred]

\* list(partition['type'].values_host)
TrueLabels(partition) == [k \in 1..Len(partition) |-> partition[k].type]

\* A join that puts each list in front of the ones before it.
RECURSIVE ConcatenateLastFirst(_)
ConcatenateLastFirst(lists) ==
    IF lists = <<>> THEN <<>> ELSE ConcatenateLastFirst(Tail(lists)) \o Head(lists)

\* np.concatenate(lists): the lists joined end to end, in list order.
RECURSIVE Concatenate(_)
Concatenate(lists) ==
    IF lists = <<>> THEN <<>> ELSE Head(lists) \o Concatenate(Tail(lists))

\* sklearn accuracy_score(a, b): the fraction of positions where a and b agree,
\* kept as numerator and denominator.
AccuracyScore(a, b) ==
    [correct |-> Cardinality({k \in 1..Len(a) : a[k] = b[k]}), total |-> Len(a)]

\* dd = DGADetector(); dd.load_model(model_filepath)
\* Loading needs a complete checkpoint file at the path; it can also fail otherwise.
LoadModel ==
    /\ pc = "load_model"
    /\ loaded' = loaded \cup {model_filepath}
    /\ \/ \E f \in disk :
            /\ f.path = model_filepath
            /\ f.complete
            /\ weights' = f.content
            /\ pc' = "predict"
            /\ UNCHANGED error
       \/ Raise("infer_aborted", "load_model") /\ UNCHANGED weights
    /\ UNCHANGED <<accSeq, dirExists, disk, now, i, accuracy, output_filepath,
                   max_accuracy, prev_model_file_path, model_filepath, saved, removed,
                   cleaned, partitioned_dfs, j, pred_results, true_results,
                   accuracy_score>>

\* for partition in test_dataset.partitioned_dfs: pred_results.append(...);
\* true_results.append(...)
PredictPartition ==
    /\ pc = "predict"
    /\ j < Len(partitioned_dfs)
    /\ \/ /\ j' = j + 1
          /\ pred_results' = Append(pred_results, PredictedLabels(partitioned_dfs[j + 1]))
          /\ true_results' = Append(true_results, TrueLabels(partitioned_dfs[j + 1]))
          /\ UNCHANGED <<pc, error>>
       \/ /\ Raise("infer_aborted", "predict")
          /\ UNCHANGED <<j, pred_results, true_results>>
    /\ UNCHANGED <<accSeq, dirExists, disk, now, model_filepath, cleaned,
                   partitioned_dfs, accuracy_score, loaded, trainVars>>

\* pred_results = np.concatenate(pred_results); true_results = np.concatenate(true_results)
\* np.concatenate raises ValueError on an empty list of arrays.
ConcatenateResults ==
    /\ pc = "predict"
    /\ j = Len(partitioned_dfs)
    /\ IF pred_results = <<>>
         THEN /\ Raise("infer_aborted", "ValueError")
              /\ UNCHANGED <<pred_results, true_results>>
         ELSE /\ pred_results' = Concatenate(pred_results)
              /\ true_results' = Concatenate(true_results)
              /\ pc' = "accuracy_score"
              /\ UNCHANGED error
    /\ UNCHANGED <<accSeq, dirExists, disk, now, model_filepath, cleaned,
                   partitioned_dfs, j, accuracy_score, loaded, trainVars>>

\* accuracy_score = accuracy_score(pred_results, true_results)
Score ==
    /\ pc = "accuracy_score"
    /\ \/ /\ accuracy_score' = AccuracyScore(pred_results, true_results)
          /\ pc' = "cleanup_infer"
          /\ UNCHANGED error
       \/ /\ Raise("infer_aborted", "accuracy_score")
          /\ UNCHANGED accuracy_score
    /\ UNCHANGED <<accSeq, dirExists, disk, now, model_filepath, cleaned,
                   partitioned_dfs, j, pred_results, true_results, loaded, trainVars>>

\* cleanup_cache() at the end of the inference cell
CleanupInfer ==
    /\ pc = "cleanup_infer"
    /\ cleaned' = cleaned \cup {"inference"}
    /\ pc' = "finished"
    /\ UNCHANGED <<accSeq, dirExists, disk, now, model_filepath, error,
                   partitioned_dfs, trainVars, inferVars>>

----------------------------------------------------------------------------
(* The notebook run from the training cell on *)

\* test_dataset of the full run: two batches, one wrong prediction.
DemoDataset ==
    << <<[type |-> 0, pred |-> 0], [type |-> 1, pred |-> 0]>>, <<[type |-> 1, pred |-> 1]>> >>

InferInit ==
    /\ j = 0
    /\ pred_results = <<>>
    /\ true_results = <<>>
    /\ accuracy_score = [correct |-> 0, total |-> 0]
    /\ loaded = {}

Init ==
    /\ pc = "create_dir"
    /\ accSeq \in AccSeqs
    /\ dirExists \in BOOLEAN
    /\ disk = {}
    /\ now = 0
    /\ i = 0
    /\ weights = 0
    /\ accuracy = 0
    /\ output_filepath = <<>>
    /\ max_accuracy = 0
    /\ prev_model_file_path = <<>>
    /\ model_filepath = <<>>
    /\ error = ""
    /\ saved = {}
    /\ removed = {}
    /\ cleaned = {}
    /\ partitioned_dfs = DemoDataset
    /\ InferInit

Next ==
    \/ CreateDirCheck
    \/ MakeDirs
    \/ OtherProcessMkdir
    \/ ForNext
    \/ TrainModel
    \/ EvaluateModel
    \/ Timestamp
    \/ SaveModel
    \/ RemovePrev
    \/ Return
    \/ CleanupTrain
    \/ LoadModel
    \/ PredictPartition
    \/ ConcatenateResults
    \/ Score
    \/ CleanupInfer

Spec == Init /\ [][Next]_vars

(* The inference cell alone, entered after a one-epoch training run that left *)
(* its checkpoint on disk, over every test dataset within the bound.          *)
InitInference ==
    /\ pc = "load_model"
    /\ accSeq = <<9>>
    /\ dirExists = TRUE
    /\ disk = {[path |-> strftime(1), content |-> 1, complete |-> TRUE]}
    /\ now = 1
    /\ i = 1
    /\ weights = 1
    /\ accuracy = 9
    /\ output_filepath = strftime(1)
    /\ max_accuracy = 9
    /\ prev_model_file_path = strftime(1)
    /\ model_filepath = strftime(1)
    /\ error = ""
    /\ saved = {<<1, strftime(1)>>}
    /\ removed = {}
    /\ cleaned = {"training"}
    /\ partitioned_dfs \in Datasets(MaxRecords)
    /\ InferInit

NextInference ==
    \/ LoadModel
    \/ PredictPartition
    \/ ConcatenateResults
    \/ Score
    \/ CleanupInfer

SpecInference == InitInference /\ [][NextInference]_vars

----------------------------------------------------------------------------
(* Reference notions the claims are stated with *)

Max(a, b) == IF a >= b THEN a ELSE b

\* The greatest accuracy among epochs 1..n of accs, 0 when n = 0.
RECURSIVE MaxOfFirst(_, _)
MaxOfFirst(accs, n) == IF n = 0 THEN 0 ELSE Max(MaxOfFirst(accs, n - 1), accs[n])

\* The earliest epoch among 1..n whose accuracy is the greatest of epochs 1..n.
EarliestBest(accs, n) ==
    CHOOSE k \in 1..n :
        /\ accs[k] = MaxOfFirst(accs, n)
        /\ \A m \in 1..(k - 1) : accs[m] < accs[k]

SomePositive(accs) == \E k \in 1..Len(accs) : accs[k] > 0

\* train_and_eval has returned to the training cell.
Returned == pc \in {"cleanup_train", "load_model", "predict", "accuracy_score",
                    "cleanup_infer", "finished", "infer_aborted"}

\* Number of epochs whose accuracy has been compared with max_accuracy and, when
\* it was greater, saved: "the epochs seen so far".
Seen ==
    IF \/ pc \in {"train_model", "evaluate_model", "timestamp", "save_model"}
       \/ error \in {"train_model", "evaluate_model", "save_model"}
      THEN i - 1 ELSE i

SavedEpochs == {s[1] : s \in saved}

----------------------------------------------------------------------------
(* C1: when train_and_eval returns (no collaborator error, directory without  *)
(* checkpoints at the start, any clock readings), exactly one checkpoint file *)
(* is on disk if some epoch's accuracy was > 0, and none otherwise.           *)
C1_CheckpointCountAtReturn ==
    pc = "cleanup_train" =>
        Cardinality(disk) = IF SomePositive(accSeq) THEN 1 ELSE 0

(* C2: when train_and_eval returns after some accuracy > 0, the returned path *)
(* is the file written in the earliest epoch reaching the maximum accuracy,   *)
(* and that file holds the model state saved in that epoch.                   *)
C2_ReturnedPathIsBestCheckpoint ==
    (pc = "cleanup_train" /\ SomePositive(accSeq)) =>
        LET best == EarliestBest(accSeq, Len(accSeq))
        IN  /\ <<best, model_filepath>> \in saved
            /\ \E f \in disk :
                 f.path = model_filepath /\ f.content = best /\ f.complete

C4_NeverZeroAfterFirstSave ==
    max_accuracy > 0 => Cardinality(disk) \in {1, 2}

C4_Witness ==
    /\ max_accuracy > 0
    /\ disk = {}

\* The steps of one epoch of the loop body.
InEpoch == pc \in {"train_model", "evaluate_model", "timestamp", "save_model", "os_remove"}

C5_SavesOnImprovementOnly ==
    /\ \A k \in SavedEpochs : accSeq[k] > MaxOfFirst(accSeq, k - 1)
    /\ \A k \in 1..Seen : accSeq[k] > MaxOfFirst(accSeq, k - 1) => k \in SavedEpochs
    /\ (accSeq = ExampleAccs /\ pc = "cleanup_train") =>
         /\ SavedEpochs = {1, 3}
         /\ \E p \in {s[2] : s \in saved} : <<1, p>> \in saved /\ removed = {<<3, p>>}

C5_NoEffectWithoutImprovement ==
    (InEpoch /\ ~(accSeq[i] > MaxOfFirst(accSeq, i - 1))) =>
        UNCHANGED <<disk, max_accuracy, prev_model_file_path, saved, removed>>

(* C5: epoch k calls save_model if and only if its accuracy is strictly       *)
(* greater than the maximum of epochs 1..k-1 (0 before epoch 1); no step of   *)
(* an epoch that does not exceed that maximum writes or deletes a file or     *)
(* changes max_accuracy or prev_model_file_path; for accuracies               *)
(* [0.5, 0.3, 0.9, 0.9, 0.7] the saves are those of epochs 1 and 3 and the    *)
(* one deletion is of epoch 1's path, in epoch 3.                             *)
C5_SaveIffStrictImprovement ==
    []C5_SavesOnImprovementOnly /\ [][C5_NoEffectWithoutImprovement]_vars

C5_Witness ==
    /\ accSeq = ExampleAccs
    /\ pc = "cleanup_train"
    /\ SavedEpochs = {1, 3}
    /\ Cardinality(removed) = 1

(* C6: when every epoch's accuracy is 0 (or there is no epoch),               *)
(* train_and_eval returns the empty path with no checkpoint on disk, and the  *)
(* workflow never calls load_model on that empty path.                        *)
C6_EmptyPathNeverLoaded ==
    (Returned /\ ~SomePositive(accSeq)) =>
        /\ model_filepath = <<>>
        /\ disk = {}
        /\ <<>> \notin loaded

(* C7: each phase is followed by a cleanup_cache call on every path: when the *)
(* training cell or the inference cell has ended, by finishing or by an error *)
(* raised in train_model, evaluate_model, save_model, os.remove, load_model,  *)
(* predict or the scoring call, cleanup_cache has run for that phase.         *)
C7_CleanupOnEveryPath ==
    /\ (pc = "train_aborted" /\ error \in {"train_model", "evaluate_model", "save_model",
                                           "FileNotFoundError"}) =>
           "training" \in cleaned
    /\ (pc = "infer_aborted" /\ error \in {"load_model", "predict", "accuracy_score"}) =>
           cleaned = {"training", "inference"}
    /\ pc = "finished" => cleaned = {"training", "inference"}
    /\ pc \in {"load_model", "predict", "accuracy_score", "cleanup_infer"} =>
           "training" \in cleaned

C8_Step ==
    /\ (error = "" /\ error' \in {"train_model", "evaluate_model", "save_model"}) =>
         /\ pc' = "train_aborted"
         /\ \A f \in disk : f.path = prev_model_file_path => f \in disk'
    /\ pc = "train_aborted" => UNCHANGED vars

(* C8: when train_model, evaluate_model or save_model raises in an epoch, the *)
(* run of train_and_eval ends there (no retry, no further step of this or a   *)
(* later epoch), and the best checkpoint that was on disk before the failing  *)
(* call is still there with the same content.                                 *)
C8_ErrorAbortsAndKeepsBest == [][C8_Step]_vars

(* C9: create_dir never raises because the directory is already present,      *)
(* whether it was there before the call or appeared between the existence     *)
(* check and os.makedirs, and once create_dir has returned the directory      *)
(* exists.                                                                    *)
C9_CreateDirNeverRaises ==
    /\ error # "FileExistsError"
    /\ pc \notin {"create_dir", "makedirs", "train_aborted"} => dirExists

\* Number of records in the batches before batch b.
RECURSIVE Offset(_)
Offset(b) == IF b = 1 THEN 0 ELSE Offset(b - 1) + Len(partitioned_dfs[b - 1])

TotalRecords == Offset(Len(partitioned_dfs) + 1)

\* Number of records of a batch whose predicted label is the true one.
Matches(partition) ==
    Cardinality({k \in 1..Len(partition) : partition[k].pred = partition[k].type})

RECURSIVE MatchesUpTo(_)
MatchesUpTo(b) == IF b = 0 THEN 0 ELSE MatchesUpTo(b - 1) + Matches(partitioned_dfs[b])

(* C10: after the concatenation, pred_results and true_results both have as   *)
(* many elements as there are records in all batches, element Offset(b) + k   *)
(* of each comes from record k of batch b, and the accuracy over them is the  *)
(* sum over batches of matching records out of the sum of the batch sizes.    *)
C10_AggregationPreservesOrder ==
    pc \in {"accuracy_score", "cleanup_infer", "finished"} =>
        /\ Len(pred_results) = TotalRecords
        /\ Len(true_results) = TotalRecords
        /\ \A b \in 1..Len(partitioned_dfs) : \A k \in 1..Len(partitioned_dfs[b]) :
             /\ pred_results[Offset(b) + k] = partitioned_dfs[b][k].pred
             /\ true_results[Offset(b) + k] = partitioned_dfs[b][k].type
        /\ pc \in {"cleanup_infer", "finished"} =>
             accuracy_score = [correct |-> MatchesUpTo(Len(partitioned_dfs)),
                               total |-> TotalRecords]

C10_Witness ==
    /\ pc = "finished"
    /\ Len(partitioned_dfs) = 2
    /\ Len(partitioned_dfs[1]) = 2
    /\ accuracy_score = [correct |-> 2, total |-> 3]
    /\ pred_results[1] # pred_results[3]

(* C11: os.remove is attempted on the previous checkpoint path only when     *)
(* that file is on disk, so the deletion of the previous checkpoint never     *)
(* fails with a missing-file error, whatever the accuracies and clock         *)
(* readings.                                                                  *)
C11_RemoveOnlyExistingFile ==
    /\ (pc = "os_remove" /\ prev_model_file_path # <<>>) =>
           Exists(disk, prev_model_file_path)
    /\ error # "FileNotFoundError"

(* C12: at the end of every epoch and at return, prev_model_file_path is the  *)
(* empty string or the path of a file on disk, and the path os.remove was     *)
(* called with in an epoch is never the path save_model wrote in that epoch.  *)
C12_PrevPathNamesExistingFile ==
    /\ (pc \in {"for", "return"} \/ Returned) =>
           (prev_model_file_path = <<>> \/ Exists(disk, prev_model_file_path))
    /\ removed \cap saved = {}

====
